---- MODULE Spec2Model ----
(***************************************************************************)
(* Model of scripts/fix-corrupted-script.py: the routine                   *)
(* fix_corrupted_script(), which loads script.json, replaces inline        *)
(* base64 frame payloads by frame paths, and falls back to rebuilding the  *)
(* document from its complete scene records.                               *)
(*                                                                         *)
(* Text is modelled as a sequence of lexical pieces (tokens); every token  *)
(* has the character width of the text it stands for, so that the offsets  *)
(* the code computes (the 500 character look-back window, the parse error  *)
(* offset) are computed on characters as in the source.                    *)
(***************************************************************************)
EXTENDS Integers, Sequences, FiniteSets, TLC

(***************************************************************************)
(* Bounds of the model.                                                    *)
(***************************************************************************)
\* largest number of scene records in a generated input document
MaxScenes == 2
\* number of consecutive runs of the script on the same file
MaxRuns == 2

(***************************************************************************)
(* Tokens.  k is the kind, f the frame type ("first"/"last") of a frame    *)
(* field, n a number (scene number of an id, variant of a payload, width   *)
(* of a cut fragment), d the directory of a frame path.                    *)
(*   "{" "}" "[" "]" ","   the structural characters                       *)
(*   "ws"      whitespace (a newline and its indentation)                  *)
(*   "title"   "title":"T"                  a metadata field               *)
(*   "id"      "id":"s<n>"                  an id assignment               *)
(*   "kv"      "k":1                        a field of a nested object     *)
(*   "scenes"  "scenes":                    key of the scene sequence      *)
(*   "meta"    "meta":                      key of a nested object         *)
(*   "pay"     "<f>FrameDataUrl":"data:image/png;base64,..."               *)
(*             n = 1 short, n = 2 long, n = 3 short with a raw control     *)
(*             character inside the string                                 *)
(*   "payesc"  "<f>FrameDataUrl":"data:image\/png;base64,..."              *)
(*             a short payload field whose text writes the / of the prefix *)
(*             as the JSON escape \/                                       *)
(*   "paytr"   a payload field cut before its closing quote                *)
(*   "path"    "<f>FrameDataUrl": "<d>/s<n>-<f>.png"                       *)
(*   "null"    "<f>FrameDataUrl": null                                     *)
(*   "bad"     a byte that is not valid UTF-8 (bytes on disk only)         *)
(*   "part"    the leading n characters of a token cut by a slice          *)
(***************************************************************************)
Tok(k, f, n) == [k |-> k, f |-> f, n |-> n, d |-> ""]

FRAMES_DIR == "public/frames/yossis-cobol-crisis-2025"

\* the directory the replacement text is built with
FramePathPrefix == "/frames/yossis-cobol-crisis-2025"

PathTok(dir, f, n) == [k |-> "path", f |-> f, n |-> n, d |-> dir]

WS == Tok("ws", "", 0)

\* the look-back window of replace_frame_url, in characters
ContextWindow == 500

\* character widths of the generated payload fields
ShortPayloadWidth == 60
LongPayloadWidth == 600
TruncatedPayloadWidth == 40
\* offset of the raw control character inside a payload of variant 3
ControlCharOffset == 50

\* len(frame_type) and len('"<frame_type>FrameDataUrl"')
FrameLen(f) == IF f = "first" THEN 5 ELSE 4
FrameKeyLen(f) == FrameLen(f) + 14

\* len(directory) of a frame path
DirLen(d) == IF d = FramePathPrefix THEN 32 ELSE 38

\* number of characters of the text a token stands for
Width(t) ==
  CASE t.k \in {"{", "}", "[", "]", ",", "ws", "bad"} -> 1
    [] t.k = "title"  -> 11
    [] t.k = "id"     -> 9
    [] t.k = "kv"     -> 5
    [] t.k = "scenes" -> 9
    [] t.k = "meta"   -> 7
    [] t.k = "pay"    -> IF t.n = 2 THEN LongPayloadWidth ELSE ShortPayloadWidth
    [] t.k = "payesc" -> ShortPayloadWidth + 1
    [] t.k = "paytr"  -> TruncatedPayloadWidth
    [] t.k = "path"   -> FrameKeyLen(t.f) + DirLen(t.d) + FrameLen(t.f) + 12
    [] t.k = "null"   -> FrameKeyLen(t.f) + 6
    [] t.k = "part"   -> t.n

\* offset of the colon that ends the key of a field token
KeyLen(t) ==
  CASE t.k = "title"  -> 7
    [] t.k = "id"     -> 4
    [] t.k = "kv"     -> 3
    [] t.k = "scenes" -> 8
    [] t.k = "meta"   -> 6
    [] t.k \in {"pay", "payesc", "paytr", "path", "null"} -> FrameKeyLen(t.f)
    [] OTHER -> 0

\* the one element of a set of one element; {e(x) : x \in {v}} binds v as
\* a value, so that e uses it without computing it again
The(S) == CHOOSE x \in S : TRUE

RECURSIVE WidthSum(_, _, _)
\* characters of the tokens lo..hi of text; the range is halved to keep
\* the evaluation shallow
WidthSum(text, lo, hi) ==
  IF lo > hi THEN 0
  ELSE IF lo = hi THEN Width(text[lo])
  ELSE The({WidthSum(text, lo, mid) + WidthSum(text, mid + 1, hi) :
              mid \in {(lo + hi) \div 2}})

\* len(text), in characters
TextLen(text) == WidthSum(text, 1, Len(text))

\* character offset at which token i of text starts
CharPos(text, i) == WidthSum(text, 1, i - 1)

\* text[:pos]: the k tokens that end at or before pos, and the cut
\* fragment of the token pos falls into
Slice(text, pos) ==
  The({SubSeq(text, 1, k) \o
       (IF k < Len(text) /\ pos > CharPos(text, k + 1)
        THEN <<Tok("part", "", pos - CharPos(text, k + 1))>> ELSE <<>>) :
       k \in {Cardinality({j \in 1..Len(text) : CharPos(text, j + 1) <= pos})}})

(***************************************************************************)
(* json.loads.  A field token is a key with a scalar value; a key token    *)
(* is followed by an object or an array.                                   *)
(***************************************************************************)
IsField(t) ==
  t.k \in {"title", "id", "kv", "pay", "payesc", "paytr", "path", "null"}
IsKey(t) == t.k \in {"scenes", "meta"}

\* offset inside a field token at which its value fails to scan, -1 if
\* the value is well formed: a string without closing quote is reported at
\* its opening quote, a raw control character where it stands
ValueErr(t) ==
  CASE t.k = "paytr" -> KeyLen(t) + 1
    [] t.k = "pay" /\ t.n = 3 -> ControlCharOffset
    [] OTHER -> -1

Pop(stack) == SubSeq(stack, 1, Len(stack) - 1)

\* what the scanner expects after a value is complete
After(stack) ==
  IF stack = <<>> THEN "end"
  ELSE IF stack[Len(stack)] = "o" THEN "after_member" ELSE "after_elem"

\* the scanner before any token
ScanStart == [mode |-> "val", stack |-> <<>>, err |-> FALSE, pos |-> 0]

\* the scanner, in state st, reads token i: st.mode is what it expects,
\* st.stack the open containers; an error is kept with its offset
ScanStep(text, st, i) ==
  LET t == text[i]
      Err(off) == [st EXCEPT !.err = TRUE, !.pos = CharPos(text, i) + off]
      Expect(m) == [st EXCEPT !.mode = m]
      Open(c, m) == [st EXCEPT !.stack = Append(st.stack, c), !.mode = m]
      Close == [st EXCEPT !.stack = Pop(st.stack),
                          !.mode = After(Pop(st.stack))]
  IN
  IF st.err \/ t.k = "ws" THEN st
  ELSE CASE st.mode = "end" -> Err(0)
    [] st.mode \in {"val", "first_elem"} ->
         IF t.k = "{" THEN Open("o", "first_member")
         ELSE IF t.k = "[" THEN Open("a", "first_elem")
         ELSE IF t.k = "]" /\ st.mode = "first_elem" THEN Close
         ELSE IF IsField(t) \/ IsKey(t) THEN Err(KeyLen(t))
         ELSE Err(0)
    [] st.mode \in {"first_member", "member"} ->
         IF t.k = "}" /\ st.mode = "first_member" THEN Close
         ELSE IF IsKey(t) THEN Expect("val")
         ELSE IF IsField(t)
              THEN IF ValueErr(t) >= 0 THEN Err(ValueErr(t))
                   ELSE Expect("after_member")
              ELSE Err(0)
    [] st.mode = "after_member" ->
         IF t.k = "," THEN Expect("member")
         ELSE IF t.k = "}" THEN Close
         ELSE Err(0)
    [] st.mode = "after_elem" ->
         IF t.k = "," THEN Expect("val")
         ELSE IF t.k = "]" THEN Close
         ELSE Err(0)

RECURSIVE ScanRange(_, _, _, _)
\* the scanner reads the tokens lo..hi of text, in order, from state st;
\* the range is halved to keep the evaluation shallow, and the state after
\* the first half is bound as a value so that it is computed once
ScanRange(text, lo, hi, st) ==
  IF lo > hi THEN st
  ELSE IF lo = hi THEN ScanStep(text, st, lo)
  ELSE LET mid == (lo + hi) \div 2
       IN The({IF left.err THEN left ELSE ScanRange(text, mid + 1, hi, left) :
                 left \in {ScanRange(text, lo, mid, st)}})

\* the scan of all of text: [ok, pos] with pos the offset of the error,
\* which is the end of the text when the text ends too early
Scan(text) ==
  The({IF st.err THEN [ok |-> FALSE, pos |-> st.pos]
       ELSE [ok |-> st.mode = "end", pos |-> TextLen(text)] :
       st \in {ScanRange(text, 1, Len(text), ScanStart)}})

NotWs(t) == t.k # "ws"

\* the value of a string is its text with the escapes resolved: \/ is /
Unescape(t) == IF t.k = "payesc" THEN Tok("pay", t.f, 1) ELSE t

\* the structure a well formed text stands for, held as tokens: without
\* whitespace, every string unescaped
Parsed(text) ==
  The({[i \in 1..Len(kept) |-> Unescape(kept[i])] :
       kept \in {SelectSeq(text, NotWs)}})

\* json.loads(text): ok, the offset of the JSONDecodeError (e.pos), and
\* the parsed structure
json_loads(text) ==
  The({[ok |-> r.ok, pos |-> r.pos,
        data |-> IF r.ok THEN Parsed(text) ELSE <<>>] :
       r \in {Scan(text)}})

RECURSIVE Concat(_, _, _)
\* the texts lo..hi of the sequence parts, one after the other
Concat(parts, lo, hi) ==
  IF lo > hi THEN <<>>
  ELSE IF lo = hi THEN parts[lo]
  ELSE LET mid == (lo + hi) \div 2
       IN Concat(parts, lo, mid) \o Concat(parts, mid + 1, hi)

\* token i of data with the line breaks the indented form puts around it:
\* after an opening brace or bracket and after a comma, before a closing
\* one, none inside an empty container
Pretty(data, i) ==
  LET t == data[i]
      opens == t.k \in {"{", "["}
      closes == t.k \in {"}", "]"}
      emptyAfter == i < Len(data) /\ data[i + 1].k \in {"}", "]"}
      emptyBefore == i > 1 /\ data[i - 1].k \in {"{", "["}
  IN IF opens THEN IF emptyAfter THEN <<t>> ELSE <<t, WS>>
     ELSE IF closes THEN IF emptyBefore THEN <<t>> ELSE <<WS, t>>
     ELSE IF t.k = "," THEN <<t, WS>>
     ELSE <<t>>

\* json.dump(data, f, indent=2): one member or element per line; a / is
\* written as it is
json_dump(data) ==
  Concat([i \in 1..Len(data) |-> Pretty(data, i)], 1, Len(data))

(***************************************************************************)
(* The regular expressions, on tokens.                                     *)
(***************************************************************************)
Min(S) == CHOOSE x \in S : \A y \in S : x <= y

\* re.finditer(base64_pattern, text): the matched spans.  The pattern
\* needs the closing quote, so only a complete payload field matches (a
\* cut payload is generated last in a text, where no later quote can
\* close it), and it needs the characters data:image/ as they are, so a
\* payload written with data:image\/ does not match
base64_matches(text) == {i \in 1..Len(text) : text[i].k = "pay"}

\* re.search(r'"id"\s*:\s*"([^"]+)"', context): the id assignments lying
\* wholly inside content[context_start:start] are ids; re.search returns
\* the leftmost match
scene_id_match(ids) == Min(ids)

\* replace_frame_url searching all of content[:match.start()]
replace_frame_url_unbounded(content, i) ==
  LET ids == {j \in 1..(i - 1) : content[j].k = "id"}
  IN IF ids # {}
     THEN PathTok(FramePathPrefix, content[i].f, content[scene_id_match(ids)].n)
     ELSE Tok("null", content[i].f, 0)

\* replace_frame_url(match) for the match at token i of content
replace_frame_url(content, i) ==
  LET frame_type == content[i].f
      start == CharPos(content, i)
      context_start == IF start - ContextWindow > 0
                       THEN start - ContextWindow ELSE 0
      ids == {j \in 1..(i - 1) :
                /\ content[j].k = "id"
                /\ CharPos(content, j) >= context_start}
  IN IF ids # {}
     THEN PathTok(FramePathPrefix, frame_type, content[scene_id_match(ids)].n)
     ELSE Tok("null", frame_type, 0)

\* re.sub(base64_pattern, replace_frame_url, content)
re_sub(content) ==
  [i \in 1..Len(content) |->
     IF i \in base64_matches(content) THEN replace_frame_url(content, i)
     ELSE content[i]]

RECURSIVE SkipWs(_, _)
\* index of the first token at or after i that is not whitespace
SkipWs(text, i) ==
  IF i <= Len(text) /\ text[i].k = "ws" THEN SkipWs(text, i + 1) ELSE i

\* the closing braces at which a match of scene_pattern that has its id at
\* token a may end: the brace is followed, after whitespace, by , or ]
SceneEnds(text, a) ==
  {q \in (a + 1)..Len(text) :
     /\ text[q].k = "}"
     /\ LET e == SkipWs(text, q + 1)
        IN e <= Len(text) /\ text[e].k \in {",", "]"}}

\* last token of the match of scene_pattern that starts at token p, 0 if
\* there is none: { \s* "id" \s* : .*? } \s* (?=,|\]) with a lazy .*?
SceneMatchEnd(text, p) ==
  IF text[p].k # "{" THEN 0
  ELSE LET a == SkipWs(text, p + 1)
       IN IF a > Len(text) \/ text[a].k # "id" THEN 0
          ELSE IF SceneEnds(text, a) = {} THEN 0
          ELSE SkipWs(text, Min(SceneEnds(text, a)) + 1) - 1

RECURSIVE scene_finditer(_, _)
\* re.finditer(scene_pattern, text, re.DOTALL) from token p on: the
\* matched texts (group(0)), left to right, not overlapping
scene_finditer(text, p) ==
  The({IF starts = {} THEN <<>>
       ELSE The({<<SubSeq(text, Min(starts), e)>> \o scene_finditer(text, e + 1) :
                   e \in {SceneMatchEnd(text, Min(starts))}}) :
       starts \in {{q \in p..Len(text) : SceneMatchEnd(text, q) # 0}}})

\* text.find('"scenes"')
find_scenes(text) ==
  LET idx == {i \in 1..Len(text) : text[i].k = "scenes"}
  IN IF idx = {} THEN -1 ELSE CharPos(text, Min(idx))

RECURSIVE JoinScenes(_, _)
\* the scene texts from the i-th on, each but the first after ',\n'
JoinScenes(scenes, i) ==
  IF i > Len(scenes) THEN <<>>
  ELSE (IF i > 1 THEN <<Tok(",", "", 0), WS>> ELSE <<>>)
       \o scenes[i] \o JoinScenes(scenes, i + 1)

\* metadata + '"scenes": [\n' + scenes joined + '\n]\n}'
Reassemble(metadata, scenes) ==
  metadata \o <<Tok("scenes", "", 0), Tok("[", "", 0), WS>>
           \o JoinScenes(scenes, 1)
           \o <<WS, Tok("]", "", 0), WS, Tok("}", "", 0)>>

(***************************************************************************)
(* Files hold bytes; the text read from one is its decoding.               *)
(***************************************************************************)
IsText(t) == t.k # "bad"

\* open(path, 'r', encoding='utf-8', errors='ignore').read(): bytes that
\* do not decode are dropped
Decode(bytes) == SelectSeq(bytes, IsText)

\* f.write(text) on a file opened with encoding='utf-8'
Encode(text) == text

(***************************************************************************)
(* Input files: a well formed document of 1..MaxScenes scenes, cut after   *)
(* any number of tokens or inside a payload string, with or without a      *)
(* byte that is not UTF-8.                                                 *)
(***************************************************************************)
Shapes == 1..7

SceneBody(shape, k) ==
  LET id == Tok("id", "", k)
      c == Tok(",", "", 0)
      nested == <<Tok("meta", "", 0), Tok("{", "", 0), Tok("kv", "", 0),
                  Tok("}", "", 0)>>
  IN CASE shape = 1 -> <<id>>
       [] shape = 2 -> <<id, c, Tok("pay", "first", 1)>>
       [] shape = 3 -> <<id, c, Tok("pay", "first", 2), c, Tok("pay", "last", 1)>>
       [] shape = 4 -> <<id, c, Tok("pay", "first", 3)>>
       [] shape = 5 -> <<id, c>> \o nested \o <<c, Tok("pay", "last", 1)>>
       [] shape = 6 -> <<id, c, Tok("pay", "first", 1), c>> \o nested
       [] shape = 7 -> <<id, c, Tok("payesc", "last", 0)>>

RECURSIVE SceneList(_, _)
SceneList(shapes, k) ==
  IF k > Len(shapes) THEN <<>>
  ELSE (IF k > 1 THEN <<Tok(",", "", 0)>> ELSE <<>>)
       \o <<Tok("{", "", 0)>> \o SceneBody(shapes[k], k) \o <<Tok("}", "", 0)>>
       \o SceneList(shapes, k + 1)

ValidDoc(shapes) ==
  <<Tok("{", "", 0), Tok("title", "", 0), Tok(",", "", 0),
    Tok("scenes", "", 0), Tok("[", "", 0)>>
  \o SceneList(shapes, 1)
  \o <<Tok("]", "", 0), Tok("}", "", 0)>>

ShapeSeqs == UNION {[1..n -> Shapes] : n \in 1..MaxScenes}

\* doc cut after c tokens; mid: the cut falls inside the payload string
\* that follows
Truncate(doc, c, mid) ==
  SubSeq(doc, 1, c) \o
  (IF mid /\ c < Len(doc) /\ doc[c + 1].k = "pay"
   THEN <<Tok("paytr", doc[c + 1].f, 0)>> ELSE <<>>)

WithBadByte(bytes) ==
  IF bytes = <<>> THEN <<Tok("bad", "", 0)>>
  ELSE <<Head(bytes), Tok("bad", "", 0)>> \o Tail(bytes)

InputFiles ==
  LET texts == UNION {{Truncate(ValidDoc(s), c, mid) :
                         c \in 0..Len(ValidDoc(s)), mid \in BOOLEAN} :
                      s \in ShapeSeqs}
  IN texts \cup {WithBadByte(t) : t \in texts}

(***************************************************************************)
(* State.                                                                  *)
(***************************************************************************)
VARIABLES
  file,           \* bytes of SCRIPT_PATH on disk
  backupExists,   \* SCRIPT_PATH.backup-corrupted exists
  backup,         \* its bytes
  orig,           \* bytes of SCRIPT_PATH when the current run started
  origBackup,     \* [exists, bytes] of the backup when the run started
  content,        \* local: the text read
  fixed_content,  \* local: the text after re.sub
  truncate_pos,   \* local
  scenes,         \* local: the texts matched by scene_pattern
  data,           \* local: the parsed structure
  pc,             \* position of the run
  stage,          \* the try block (or none) the run is in
  raised,         \* the last exception raised
  raisedAt,       \* the stage it was raised in
  uncaught,       \* an exception left fix_corrupted_script
  exit,           \* exit status of the process, -1 while it runs
  writes,         \* files opened for writing by the current run
  targetOpened,   \* SCRIPT_PATH was opened for writing by the current run
  run             \* number of the current run

vars == <<file, backupExists, backup, orig, origBackup, content, fixed_content,
          truncate_pos, scenes, data, pc, stage, raised, raisedAt, uncaught,
          exit, writes, targetOpened, run>>

disk == <<file, backupExists, backup>>
locals == <<content, fixed_content, truncate_pos, scenes, data>>
runInfo == <<orig, origBackup, run>>

Terminal == {"VALID", "INVALID_UNKNOWN", "FIXED", "RECONSTRUCTED",
             "RECONSTRUCT_FAILED", "ABORTED"}

Init ==
  /\ file \in InputFiles
  /\ backupExists = FALSE
  /\ backup = <<>>
  /\ orig = file
  /\ origBackup = [exists |-> FALSE, bytes |-> <<>>]
  /\ content = <<>>
  /\ fixed_content = <<>>
  /\ truncate_pos = 0
  /\ scenes = <<>>
  /\ data = <<>>
  /\ pc = "start"
  /\ stage = "load"
  /\ raised = "none"
  /\ raisedAt = "none"
  /\ uncaught = FALSE
  /\ exit = -1
  /\ writes = 0
  /\ targetOpened = FALSE
  /\ run = 1

(***************************************************************************)
(* Exceptions.  The open at load is in no try block; the try around the    *)
(* direct validation and the one around the stripped text's parse and      *)
(* writes name json.JSONDecodeError; the try of the reconstruction names   *)
(* Exception.                                                              *)
(***************************************************************************)
\* every try block with "except Exception", and one around the load
HandlesEverything(s, exc) == TRUE

Handles(s, exc) ==
  CASE s = "load"     -> FALSE
    [] s = "validate" -> exc = "JSONDecodeError"
    [] s = "strip"    -> exc = "JSONDecodeError"
    [] s = "recon"    -> TRUE

\* an exception no handler takes leaves fix_corrupted_script and the
\* module; the interpreter prints the traceback and exits with status 1
Propagate(exc) ==
  /\ pc' = "ABORTED"
  /\ uncaught' = TRUE
  /\ exit' = 1
  /\ raised' = exc
  /\ raisedAt' = stage

\* sys.exit(0) whatever fix_corrupted_script returned
ReturnFalseExitZero(at) ==
  /\ pc' = at
  /\ exit' = 0
  /\ uncaught' = FALSE

\* return False, then sys.exit(1)
ReturnFalse(at) ==
  /\ pc' = at
  /\ exit' = 1
  /\ uncaught' = FALSE

\* sys.exit(1 if success else 0)
ReturnTrueExitOne(at) ==
  /\ pc' = at
  /\ exit' = 1
  /\ uncaught' = FALSE

\* return True, then sys.exit(0)
ReturnTrue(at) ==
  /\ pc' = at
  /\ exit' = 0
  /\ uncaught' = FALSE

\* an OSError raised by open, read or write in the current stage; the only
\* handler that takes it is the reconstruction's, which returns False
RaiseOSError ==
  IF Handles(stage, "OSError")
  THEN /\ ReturnFalse("RECONSTRUCT_FAILED")
       /\ raised' = "OSError"
       /\ raisedAt' = stage
  ELSE Propagate("OSError")

\* what a write that fails may leave of out in the file: nothing, or all
\* but its end
Partial(out) ==
  {SubSeq(out, 1, n) : n \in {0, IF Len(out) > 0 THEN Len(out) - 1 ELSE 0}}

(***************************************************************************)
(* The steps of fix_corrupted_script.                                      *)
(***************************************************************************)
\* with open(SCRIPT_PATH, 'r', ...) as f: content = f.read()
Load ==
  /\ pc = "start"
  /\ content' = Decode(file)
  /\ pc' = "LOADED"
  /\ UNCHANGED <<disk, runInfo, fixed_content, truncate_pos, scenes, data,
                 stage, raised, raisedAt, uncaught, exit, writes, targetOpened>>

LoadFails ==
  /\ pc = "start"
  /\ RaiseOSError
  /\ UNCHANGED <<disk, runInfo, locals, stage, writes, targetOpened>>

\* if len(matches) == 0: try json.loads(content)
DirectValidate ==
  /\ pc = "LOADED"
  /\ base64_matches(content) = {}
  /\ stage' = "validate"
  /\ \E r \in {json_loads(content)} :
     IF r.ok
     THEN /\ ReturnTrue("VALID")
          /\ data' = r.data
          /\ UNCHANGED <<raised, raisedAt>>
     ELSE /\ raised' = "JSONDecodeError"
          /\ raisedAt' = "validate"
          /\ data' = data
          /\ IF Handles("validate", "JSONDecodeError")
             THEN ReturnFalse("INVALID_UNKNOWN")
             ELSE /\ pc' = "ABORTED" /\ uncaught' = TRUE /\ exit' = 1
  /\ UNCHANGED <<disk, runInfo, content, fixed_content, truncate_pos, scenes,
                 writes, targetOpened>>

\* fixed_content = re.sub(base64_pattern, replace_frame_url, content)
Strip ==
  /\ pc = "LOADED"
  /\ base64_matches(content) # {}
  /\ fixed_content' = re_sub(content)
  /\ pc' = "STRIPPED"
  /\ stage' = "strip"
  /\ UNCHANGED <<disk, runInfo, content, truncate_pos, scenes, data, raised,
                 raisedAt, uncaught, exit, writes, targetOpened>>

\* try: data = json.loads(fixed_content) ... except json.JSONDecodeError
\* as e: truncate_pos = min(e.pos, len(fixed_content))
ParseFixed ==
  /\ pc = "STRIPPED"
  /\ \E r \in {json_loads(fixed_content)} :
     IF r.ok
     THEN /\ data' = r.data
          /\ pc' = "parsed"
          /\ UNCHANGED <<truncate_pos, stage, raised, raisedAt, uncaught, exit>>
     ELSE /\ raised' = "JSONDecodeError"
          /\ raisedAt' = "strip"
          /\ data' = data
          /\ IF Handles("strip", "JSONDecodeError")
             THEN /\ truncate_pos' = IF r.pos < TextLen(fixed_content)
                                     THEN r.pos ELSE TextLen(fixed_content)
                  /\ pc' = "STRIP_FAILED"
                  /\ stage' = "recon"
                  /\ UNCHANGED <<uncaught, exit>>
             ELSE /\ pc' = "ABORTED" /\ uncaught' = TRUE /\ exit' = 1
                  /\ UNCHANGED <<truncate_pos, stage>>
  /\ UNCHANGED <<disk, runInfo, content, fixed_content, scenes, writes,
                 targetOpened>>

\* search_content = fixed_content[:truncate_pos]
search_content == Slice(fixed_content, truncate_pos)

\* the aggressive fix up to its json.loads(reconstructed)
Reconstruct ==
  /\ pc = "STRIP_FAILED"
  /\ \E sc \in {search_content} :
     \E found \in {scene_finditer(sc, 1)}, meta_end \in {find_scenes(sc)} :
     \E reconstructed \in {Reassemble(Slice(sc, meta_end), found)} :
     \E r \in {json_loads(reconstructed)} :
        /\ scenes' = found
        /\ IF found = <<>> \/ meta_end <= 0
           THEN /\ ReturnFalse("RECONSTRUCT_FAILED")
                /\ UNCHANGED <<data, raised, raisedAt>>
           ELSE IF r.ok
           THEN /\ data' = r.data
                /\ pc' = "parsed"
                /\ UNCHANGED <<raised, raisedAt, uncaught, exit>>
           ELSE /\ raised' = "JSONDecodeError"
                /\ raisedAt' = "recon"
                /\ data' = data
                /\ IF Handles("recon", "JSONDecodeError")
                   THEN ReturnFalse("RECONSTRUCT_FAILED")
                   ELSE /\ pc' = "ABORTED" /\ uncaught' = TRUE /\ exit' = 1
  /\ UNCHANGED <<disk, runInfo, content, fixed_content, truncate_pos, stage,
                 writes, targetOpened>>

\* with open(backup_path, 'w', ...) as f: f.write(content)
WriteBackup ==
  /\ pc = "parsed"
  /\ backupExists' = TRUE
  /\ backup' = Encode(content)
  /\ writes' = writes + 1
  /\ pc' = "backup"
  /\ UNCHANGED <<file, runInfo, locals, stage, raised, raisedAt, uncaught,
                 exit, targetOpened>>

\* the open of the backup fails, or the write into it does
WriteBackupFails ==
  /\ pc = "parsed"
  /\ \/ UNCHANGED <<backupExists, backup, writes>>
     \/ /\ backupExists' = TRUE
        /\ backup' \in Partial(Encode(content))
        /\ writes' = writes + 1
  /\ RaiseOSError
  /\ UNCHANGED <<file, runInfo, locals, stage, targetOpened>>

\* open(SCRIPT_PATH, 'w', ...): the file is truncated
OpenTarget ==
  /\ pc = "backup"
  /\ file' = <<>>
  /\ targetOpened' = TRUE
  /\ writes' = writes + 1
  /\ pc' = "open"
  /\ UNCHANGED <<backupExists, backup, runInfo, locals, stage, raised,
                 raisedAt, uncaught, exit>>

OpenTargetFails ==
  /\ pc = "backup"
  /\ RaiseOSError
  /\ UNCHANGED <<disk, runInfo, locals, stage, writes, targetOpened>>

\* json.dump(data, f, indent=2); return True
DumpTarget ==
  /\ pc = "open"
  /\ file' = Encode(json_dump(data))
  /\ ReturnTrue(IF stage = "strip" THEN "FIXED" ELSE "RECONSTRUCTED")
  /\ UNCHANGED <<backupExists, backup, runInfo, locals, stage, raised,
                 raisedAt, writes, targetOpened>>

DumpTargetFails ==
  /\ pc = "open"
  /\ file' \in Partial(Encode(json_dump(data)))
  /\ RaiseOSError
  /\ UNCHANGED <<backupExists, backup, runInfo, locals, stage, writes,
                 targetOpened>>

\* the script is run again on the file a successful run left
Rerun ==
  /\ pc \in Terminal
  /\ exit = 0
  /\ run < MaxRuns
  /\ run' = run + 1
  /\ orig' = file
  /\ origBackup' = [exists |-> backupExists, bytes |-> backup]
  /\ content' = <<>>
  /\ fixed_content' = <<>>
  /\ truncate_pos' = 0
  /\ scenes' = <<>>
  /\ data' = <<>>
  /\ pc' = "start"
  /\ stage' = "load"
  /\ raised' = "none"
  /\ raisedAt' = "none"
  /\ uncaught' = FALSE
  /\ exit' = -1
  /\ writes' = 0
  /\ targetOpened' = FALSE
  /\ UNCHANGED disk

Next ==
  \/ Load
  \/ LoadFails
  \/ DirectValidate
  \/ Strip
  \/ ParseFixed
  \/ Reconstruct
  \/ WriteBackup
  \/ WriteBackupFails
  \/ OpenTarget
  \/ OpenTargetFails
  \/ DumpTarget
  \/ DumpTargetFails
  \/ Rerun

Spec == Init /\ [][Next]_vars

\* one process, one pass, no suspension points: a run that can take a
\* step takes one
LiveSpec == Spec /\ WF_vars(Next)

TypeOK ==
  /\ pc \in Terminal \cup {"start", "LOADED", "STRIPPED", "STRIP_FAILED",
                           "parsed", "backup", "open"}
  /\ exit \in {-1, 0, 1}
  /\ (exit = -1) = (pc \notin Terminal)

(***************************************************************************)
(* Properties.                                                             *)
(***************************************************************************)
Max(S) == CHOOSE x \in S : \A y \in S : x >= y

IsPayload(t) == t.k \in {"pay", "payesc", "paytr"}

\* the run has read the file and no open, read or write of it failed
NoIOError == pc # "start" /\ raised # "OSError"

\* the id assignments inside the 500 characters of text before token i
IdsInWindow(text, i) ==
  {j \in 1..(i - 1) :
     /\ text[j].k = "id"
     /\ CharPos(text, i) - CharPos(text, j) <= ContextWindow}

\* the number of containers open before token i of text
Depth(text, i) ==
  Cardinality({j \in 1..(i - 1) : text[j].k \in {"{", "["}})
  - Cardinality({j \in 1..(i - 1) : text[j].k \in {"}", "]"}})

\* the tokens that close the object opened by token i
ClosesOf(text, i) ==
  {j \in (i + 1)..Len(text) :
     text[j].k = "}" /\ Depth(text, j) = Depth(text, i) + 1}

RECURSIVE SceneRecords(_, _)
\* the complete elements of the scene sequence of text from token p on,
\* found by counting the nesting: the objects opened at depth 2 and closed
\* inside text, as the structures they stand for
SceneRecords(text, p) ==
  LET starts == {i \in p..Len(text) :
                   /\ text[i].k = "{"
                   /\ Depth(text, i) = 2
                   /\ ClosesOf(text, i) # {}}
  IN IF starts = {} THEN <<>>
     ELSE LET i == Min(starts)
              j == Min(ClosesOf(text, i))
          IN <<Parsed(SubSeq(text, i, j))>>
             \o SceneRecords(text, j + 1)

\* C1: whenever the target file has been opened for overwrite, the backup
\* file exists and holds, byte for byte, what the target file held when
\* the run started.
C1_BackupEqualsPreRunContent ==
  targetOpened => (backupExists /\ backup = orig)

\* C2 as stated: a run on a file whose raw text parses, with or without
\* payload fields, writes no file and ends with success.
C2_ValidInputWritesNothing ==
  (NoIOError /\ json_loads(content).ok) =>
     /\ writes = 0
     /\ (pc \in Terminal => exit = 0)

\* C2 amended: a run on a file whose raw text parses and holds no match of
\* base64_pattern writes no file, leaves target and backup as they were,
\* and ends in VALID with exit status 0.
C2_ValidInputWithoutPayloadWritesNothing ==
  (NoIOError /\ json_loads(content).ok /\ base64_matches(content) = {}) =>
     /\ pc \in {"LOADED", "VALID"}
     /\ writes = 0
     /\ file = orig
     /\ backupExists = origBackup.exists
     /\ backup = origBackup.bytes
     /\ (pc \in Terminal => exit = 0)

C2_Witness ==
  /\ pc = "VALID"
  /\ run = 1
  /\ Len(SceneRecords(content, 1)) = MaxScenes

\* C3: when fix_corrupted_script has returned False (exit status 1), the
\* target file holds what it held before the run.
C3_FailureLeavesTargetUnchanged ==
  (exit = 1 /\ ~uncaught) => file = orig

\* C4: every payload occurrence with an id assignment inside the window is
\* replaced by the frame path built from the nearest preceding id.
C4_PathFromNearestId ==
  fixed_content # <<>> =>
    \A i \in 1..Len(content) :
       (content[i].k = "pay" /\ IdsInWindow(content, i) # {}) =>
          fixed_content[i] =
             PathTok(FramePathPrefix, content[i].f,
                     content[Max(IdsInWindow(content, i))].n)

\* C5: the document written by a successful stripping repair holds no
\* frame field whose value is an inline image payload.
C5_NoPayloadAfterFix ==
  pc = "FIXED" => \A i \in 1..Len(file) : ~IsPayload(file[i])

\* C6: the document written by a successful reconstruction holds exactly
\* the complete scene records that lie before the clamped error offset,
\* in their order.
C6_AllCompleteScenesRecovered ==
  pc = "RECONSTRUCTED" =>
     SceneRecords(file, 1) = SceneRecords(search_content, 1)

\* C7 as stated: no exception leaves fix_corrupted_script.
C7_NothingUncaught == ~uncaught

\* C7 amended: a JSON parse failure is always caught, and so is every
\* failure inside the reconstruction, which ends in return False; an I/O
\* failure at load or while the stripper's success path writes the backup
\* or the target is the one failure that leaves the routine, and the
\* process then ends with status 1.
C7_CaughtWhereHandled ==
  /\ uncaught <=> (raised = "OSError" /\ raisedAt \in {"load", "strip"})
  /\ uncaught => (pc = "ABORTED" /\ exit = 1)
  /\ (raised = "OSError" /\ raisedAt = "recon") =>
        (pc = "RECONSTRUCT_FAILED" /\ exit = 1)
  /\ (raised = "JSONDecodeError" /\ raisedAt = "validate") =>
        (pc = "INVALID_UNKNOWN" /\ exit = 1)
  /\ (raised = "JSONDecodeError" /\ raisedAt = "strip") => stage = "recon"
  /\ (raised = "JSONDecodeError" /\ raisedAt = "recon") =>
        (pc = "RECONSTRUCT_FAILED" /\ exit = 1)

C7_Witness ==
  /\ uncaught
  /\ raisedAt = "strip"
  /\ targetOpened

\* the state of the routine's state machine the run is in
SMState ==
  CASE pc = "start" -> "INIT"
    [] pc \in {"parsed", "backup", "open"} ->
         IF stage = "strip" THEN "STRIPPED" ELSE "STRIP_FAILED"
    [] OTHER -> pc

\* C8 as stated: a run is always in a state of the state machine, and the
\* exit status is 0 exactly in VALID, FIXED, RECONSTRUCTED and 1 exactly
\* in INVALID_UNKNOWN, RECONSTRUCT_FAILED.
C8_ExitStatusByState ==
  /\ SMState \in {"INIT", "LOADED", "VALID", "INVALID_UNKNOWN", "STRIPPED",
                  "FIXED", "STRIP_FAILED", "RECONSTRUCTED",
                  "RECONSTRUCT_FAILED"}
  /\ (exit = 0) = (pc \in {"VALID", "FIXED", "RECONSTRUCTED"})
  /\ (exit = 1) = (pc \in {"INVALID_UNKNOWN", "RECONSTRUCT_FAILED"})

Edges ==
  {<<"INIT", "LOADED">>, <<"INIT", "ABORTED">>,
   <<"LOADED", "VALID">>, <<"LOADED", "INVALID_UNKNOWN">>,
   <<"LOADED", "STRIPPED">>,
   <<"STRIPPED", "FIXED">>, <<"STRIPPED", "STRIP_FAILED">>,
   <<"STRIPPED", "ABORTED">>,
   <<"STRIP_FAILED", "RECONSTRUCTED">>,
   <<"STRIP_FAILED", "RECONSTRUCT_FAILED">>}

\* C8 amended: a run moves only along the edges of the state machine
\* extended by ABORTED (an I/O failure at load or on the stripper's write
\* path), so it revisits no state; it reaches a terminal state; the
\* reconstruction is entered only after the stripped text failed to parse;
\* the exit status is 0 exactly in VALID, FIXED, RECONSTRUCTED and 1 exactly
\* in INVALID_UNKNOWN, RECONSTRUCT_FAILED and ABORTED.
C8_StateMachine ==
  /\ [][run' = run =>
          (SMState' = SMState \/ <<SMState, SMState'>> \in Edges)]_vars
  /\ [](/\ (exit = 0) = (pc \in {"VALID", "FIXED", "RECONSTRUCTED"})
        /\ (exit = 1) = (pc \in {"INVALID_UNKNOWN", "RECONSTRUCT_FAILED",
                                 "ABORTED"})
        /\ (pc = "ABORTED") = uncaught
        /\ (stage = "recon" =>
              fixed_content # <<>> /\ ~json_loads(fixed_content).ok))
  /\ [](pc = "start" => <>(pc \in Terminal))

C8_Witness ==
  /\ pc = "RECONSTRUCTED"
  /\ run = 1
  /\ Len(scenes) = MaxScenes

\* C9: every payload occurrence with no id assignment inside the window is
\* replaced by the same field mapped to null, and the text outside the
\* matched spans is unchanged.
C9_NullWithoutId ==
  fixed_content # <<>> =>
    /\ Len(fixed_content) = Len(content)
    /\ \A i \in 1..Len(content) :
         /\ (content[i].k = "pay" /\ IdsInWindow(content, i) = {}) =>
               fixed_content[i] = Tok("null", content[i].f, 0)
         /\ content[i].k # "pay" => fixed_content[i] = content[i]

C9_Witness ==
  /\ pc = "STRIPPED"
  /\ \E i \in 1..Len(content) :
       /\ fixed_content[i].k = "null"
       /\ \E j \in 1..(i - 1) : content[j].k = "id"
       /\ \E j \in (i + 1)..Len(content) : fixed_content[j] = content[j]

\* C10: after a run that ended with status 0 the target file parses, and a
\* second run that reads it finds it valid, writes nothing, leaves target
\* and backup as they were and ends with status 0.
C10_SuccessIsStable ==
  /\ (pc \in Terminal /\ exit = 0) => json_loads(Decode(file)).ok
  /\ (run >= 2 /\ NoIOError) =>
        /\ pc \in {"LOADED", "VALID"}
        /\ writes = 0
        /\ file = orig
        /\ backupExists = origBackup.exists
        /\ backup = origBackup.bytes
        /\ (pc \in Terminal => exit = 0)

====
